---- MODULE Spec2Model ----
(* A model of the netpbm P3 (ASCII PPM) decoder: read_ppm (src/src/lib.rs), *)
(* the Value Stream PpmChannelValues (src/src/parse.rs) and the Triple      *)
(* Chunker PpmPixelChunks (src/src/helpers.rs).                             *)
(*                                                                          *)
(* The byte stream is a sequence of items: a byte 0..255, or IOERR for a    *)
(* read that returns an io::Error.  The image builder (the FromPpm          *)
(* collaborator) is the environment: it pulls pixels and returns when it    *)
(* chooses to.                                                              *)
EXTENDS Integers, Sequences, FiniteSets, TLC

\* ------------------------------------------------------------------ bytes
SP == 32
LF == 10
TAB == 9
CR == 13
ZERO == 48
NINE == 57
CH_P == 80
CH_3 == 51
CH_X == 120
\* an item of io::Bytes that is Err(io::Error) instead of Ok(byte)
IOERR == 256

HeaderLen == 3
ChunkLen == 3
\* A u32 is kept as two 16-bit limbs <<hi, lo>>, its value being
\* hi * 2^16 + lo: TLC's integers are narrower than u32's range.
Limb == 65536
U32Zero == <<0, 0>>

IsOk(item) == item # IOERR

\* is_whitespace with a slip: tab and carriage return count as whitespace too
is_whitespace_ascii(byte) == byte = SP \/ byte = LF \/ byte = TAB \/ byte = CR
is_whitespace(byte) == byte = SP \/ byte = LF

is_number(byte) == ZERO <= byte /\ byte <= NINE

\* ------------------------------------------------------- results of a pull
None == [tag |-> "none", val |-> U32Zero, err |-> ""]
SomeOk(v) == [tag |-> "val", val |-> v, err |-> ""]
SomeErr(e) == [tag |-> "err", val |-> U32Zero, err |-> e]
\* the arithmetic-overflow panic of a build with overflow checks
Panic == [tag |-> "panic", val |-> U32Zero, err |-> ""]

\* --------------------------------------------- parse.rs: consume_whitespace
\* p is the number of items taken from the Peekable so far; the result's
\* peeked tells that the Peekable now buffers the item after p (or the end).
RECURSIVE consume_whitespace(_, _)
consume_whitespace(inp, p) ==
    IF p >= Len(inp)
    THEN [err |-> "", pos |-> p, peeked |-> TRUE]
    ELSE LET item == inp[p + 1] IN
         IF IsOk(item) /\ is_whitespace(item) THEN consume_whitespace(inp, p + 1)
         ELSE IF IsOk(item) /\ is_number(item)
              THEN [err |-> "", pos |-> p, peeked |-> TRUE]
         ELSE IF IsOk(item)
              THEN [err |-> "FormatError", pos |-> p, peeked |-> TRUE]
         ELSE [err |-> "Io", pos |-> p + 1, peeked |-> FALSE]

\* ------------------------------------------ parse.rs: PpmChannelValues::next
\* output *= 10; output += digit on a u32.  A build with overflow checks
\* panics when a step leaves 0..2^32-1, a build without them wraps.
\* The result is [panic, value].
\* (accumulate_octal is the slip that multiplies by 8)
accumulate_octal(output, digit, checks) ==
    LET mlo == output[2] * 8
        mhi == output[1] * 8 + (mlo \div Limb)
        alo == (mlo % Limb) + digit
        ahi == (mhi % Limb) + (alo \div Limb)
    IN  [panic |-> checks /\ (mhi >= Limb \/ ahi >= Limb),
         value |-> <<ahi % Limb, alo % Limb>>]
accumulate(output, digit, checks) ==
    LET mlo == output[2] * 10
        mhi == output[1] * 10 + (mlo \div Limb)
        alo == (mlo % Limb) + digit
        ahi == (mhi % Limb) + (alo \div Limb)
    IN  [panic |-> checks /\ (mhi >= Limb \/ ahi >= Limb),
         value |-> <<ahi % Limb, alo % Limb>>]

\* the end of the stream met by the loop of next(): a value when a digit was
\* read, the clean end otherwise.  scan_end_always is the slip that forgets
\* emit_number.
scan_end_always(output, emit_number) == SomeOk(output)
scan_end(output, emit_number) == IF emit_number THEN SomeOk(output) ELSE None

\* the loop of next(): the items are taken with self.bytes.next()
\* (scan_loop_overflow is the variant that reports an accumulator leaving
\* 0..2^32-1 as Err(OverflowError))
RECURSIVE scan_loop_overflow(_, _, _, _, _)
scan_loop_overflow(inp, p, output, emit_number, checks) ==
    IF p >= Len(inp)
    THEN [res |-> scan_end(output, emit_number), pos |-> p, fin |-> FALSE]
    ELSE LET item == inp[p + 1] IN
         IF IsOk(item) /\ is_number(item)
         THEN LET acc == accumulate(output, item - ZERO, TRUE) IN
              IF acc.panic
              THEN [res |-> SomeErr("OverflowError"), pos |-> p + 1, fin |-> TRUE]
              ELSE scan_loop_overflow(inp, p + 1, acc.value, TRUE, checks)
         ELSE IF IsOk(item) /\ is_whitespace(item)
              THEN [res |-> SomeOk(output), pos |-> p + 1, fin |-> FALSE]
         ELSE IF IsOk(item)
              THEN [res |-> SomeErr("FormatError"), pos |-> p + 1, fin |-> TRUE]
         ELSE [res |-> SomeErr("Io"), pos |-> p + 1, fin |-> TRUE]

RECURSIVE scan_loop(_, _, _, _, _)
scan_loop(inp, p, output, emit_number, checks) ==
    IF p >= Len(inp)
    THEN [res |-> scan_end(output, emit_number), pos |-> p, fin |-> FALSE]
    ELSE LET item == inp[p + 1] IN
         IF IsOk(item) /\ is_number(item)
         THEN LET acc == accumulate(output, item - ZERO, checks) IN
              IF acc.panic
              THEN [res |-> Panic, pos |-> p + 1, fin |-> FALSE]
              ELSE scan_loop(inp, p + 1, acc.value, TRUE, checks)
         ELSE IF IsOk(item) /\ is_whitespace(item)
              THEN [res |-> SomeOk(output), pos |-> p + 1, fin |-> FALSE]
         ELSE IF IsOk(item)
              THEN [res |-> SomeErr("FormatError"), pos |-> p + 1, fin |-> TRUE]
         ELSE [res |-> SomeErr("Io"), pos |-> p + 1, fin |-> TRUE]

\* vs is the stream's state [pos, peeked, is_finished]
\* (PpmChannelValues_next_eager is the slip that skips the whitespace after a
\* value at once, and so looks at the byte that follows it)
PpmChannelValues_next_eager(inp, vs, checks) ==
    IF vs.is_finished
    THEN [res |-> None, vs |-> vs]
    ELSE LET ws == consume_whitespace(inp, vs.pos) IN
         IF ws.err # ""
         THEN [res |-> SomeErr(ws.err),
               vs |-> [pos |-> ws.pos, peeked |-> ws.peeked, is_finished |-> FALSE]]
         ELSE LET sc == scan_loop(inp, ws.pos, U32Zero, FALSE, checks)
                  after == consume_whitespace(inp, sc.pos)
              IN  IF sc.res.tag = "val" /\ after.err # "Io"
                  THEN [res |-> sc.res,
                        vs |-> [pos |-> after.pos, peeked |-> after.peeked,
                                is_finished |-> sc.fin]]
                  ELSE [res |-> sc.res,
                        vs |-> [pos |-> sc.pos, peeked |-> FALSE, is_finished |-> sc.fin]]

\* (PpmChannelValues_next_peek is the variant that leaves the whitespace byte
\* which ended the digit run unread, as the unused read_number does)
PpmChannelValues_next_peek(inp, vs, checks) ==
    IF vs.is_finished
    THEN [res |-> None, vs |-> vs]
    ELSE LET ws == consume_whitespace(inp, vs.pos) IN
         IF ws.err # ""
         THEN [res |-> SomeErr(ws.err),
               vs |-> [pos |-> ws.pos, peeked |-> ws.peeked, is_finished |-> FALSE]]
         ELSE LET sc == scan_loop(inp, ws.pos, U32Zero, FALSE, checks)
                  left == sc.res.tag = "val" /\ sc.pos > ws.pos
                          /\ IsOk(inp[sc.pos]) /\ is_whitespace(inp[sc.pos])
              IN  [res |-> sc.res,
                   vs |-> [pos |-> IF left THEN sc.pos - 1 ELSE sc.pos,
                           peeked |-> left, is_finished |-> sc.fin]]

PpmChannelValues_next(inp, vs, checks) ==
    IF vs.is_finished
    THEN [res |-> None, vs |-> vs]
    ELSE LET ws == consume_whitespace(inp, vs.pos) IN
         IF ws.err # ""
         THEN [res |-> SomeErr(ws.err),
               vs |-> [pos |-> ws.pos, peeked |-> ws.peeked, is_finished |-> FALSE]]
         ELSE LET sc == scan_loop(inp, ws.pos, U32Zero, FALSE, checks) IN
              [res |-> sc.res,
               vs |-> [pos |-> sc.pos, peeked |-> FALSE, is_finished |-> sc.fin]]

\* ------------------------------------------- helpers.rs: PpmPixelChunks::next
NoTriple == <<U32Zero, U32Zero, U32Zero>>
NoPixel == [tag |-> "none", px |-> NoTriple, err |-> ""]
PixelOk(t) == [tag |-> "val", px |-> t, err |-> ""]
PixelErr(e) == [tag |-> "err", px |-> NoTriple, err |-> e]
PixelPanic == [tag |-> "panic", px |-> NoTriple, err |-> ""]

\* self.state[self.cur] = t; chunk_store_first is the slip that forgets cur
chunk_store_first(state, cur, t) == [state EXCEPT ![1] = t]
chunk_store(state, cur, t) == [state EXCEPT ![cur + 1] = t]

\* ch is the chunker's state [cur, state]; log collects what the source
\* returned to the pulls this call made
RECURSIVE PpmPixelChunks_next(_, _, _, _, _)
PpmPixelChunks_next(inp, vs, ch, checks, log) ==
    IF ch.cur < ChunkLen
    THEN LET r == PpmChannelValues_next(inp, vs, checks) IN
         IF r.res.tag = "val"
         THEN PpmPixelChunks_next(inp, r.vs,
                  [cur |-> ch.cur + 1,
                   state |-> chunk_store(ch.state, ch.cur, r.res.val)],
                  checks, Append(log, r.res))
         ELSE IF r.res.tag = "err"
              THEN [res |-> PixelErr(r.res.err), vs |-> r.vs, ch |-> ch,
                    log |-> Append(log, r.res)]
         ELSE IF r.res.tag = "panic"
              THEN [res |-> PixelPanic, vs |-> r.vs, ch |-> ch,
                    log |-> Append(log, r.res)]
         ELSE [res |-> NoPixel, vs |-> r.vs, ch |-> ch, log |-> Append(log, r.res)]
    ELSE [res |-> PixelOk(ch.state), vs |-> vs,
          ch |-> [cur |-> 0, state |-> NoTriple], log |-> log]

\* lib.rs: the closure that maps a triple to PpmPixel(triple[0..2])
\* (PpmPixel_bgr is the slip that reverses the channels)
PpmPixel_bgr(triple) == <<triple[3], triple[2], triple[1]>>
PpmPixel(triple) == <<triple[1], triple[2], triple[3]>>

\* ------------------------------------------------------------ the inputs
\* bounds of the model
MaxRawLen == 4
MaxChunks == 4
MaxPixels == 2
MaxPulls == 4

Min(a, b) == IF a < b THEN a ELSE b

SeqsUpTo(S, n) == UNION {[1..k -> S] : k \in 0..n}

RECURSIVE Flat(_)
Flat(ss) == IF ss = <<>> THEN <<>> ELSE Head(ss) \o Flat(Tail(ss))

\* the decimal digits of n, most significant first
RECURSIVE Digits(_)
Digits(n) == IF n < 10 THEN <<ZERO + n>> ELSE Append(Digits(n \div 10), ZERO + (n % 10))

\* short streams of arbitrary bytes and read errors
RawAlphabet == {CH_P, CH_3, SP, LF, TAB, IOERR}
RawInputs == SeqsUpTo(RawAlphabet, MaxRawLen)

\* streams with an accepted magic, then pieces of tokens, whitespace, garbage
\* and read errors; 429496729 followed by a digit is next to 2^32
ChunkSet == { <<ZERO, SP>>, <<ZERO + 1, LF>>, <<ZERO + 7>>, <<SP>>, <<CH_X>>, <<IOERR>>,
              Digits(429496729) }
Magic == <<CH_P, CH_3, LF>>
FieldPrefixes == { <<>>, Digits(1) \o <<SP>> \o Digits(2) \o <<SP>> \o Digits(255) \o <<LF>> }
ChunkInputs == { Magic \o pre \o Flat(cs) : pre \in FieldPrefixes, cs \in SeqsUpTo(ChunkSet, MaxChunks) }

\* well-formed images, and every prefix of one
Separators == { <<SP>>, <<LF>>, <<SP, LF>> }
Bases == { <<>>, Digits(25), Digits(429496729) }
Image(w, h, d, base, sep, hws, tail) ==
    <<CH_P, CH_3, hws>> \o Digits(w) \o sep \o Digits(h) \o sep \o Digits(d)
        \o Flat([k \in 1..(3 * w * h) |-> sep \o base \o Digits((k - 1) % 6)]) \o tail
Images == { Image(w, h, 255, base, sep, hws, tail) :
              w \in {x \in 1..MaxPixels : x * 1 <= MaxPixels},
              h \in {1}, base \in Bases, sep \in Separators,
              hws \in {SP, LF}, tail \in {<<>>, <<LF>>} }
          \cup { Image(1, h, 1, <<>>, <<SP>>, SP, <<>>) : h \in 1..MaxPixels }
ImagePrefixes == UNION { { SubSeq(img, 1, c) : c \in 0..Len(img) } : img \in Images }

Inputs == RawInputs \cup ChunkInputs \cup ImagePrefixes

\* what the builder may return: its value, or a failure of its own choosing
BuilderResults == {"Ok", "FormatError", "Unknown"}

\* -------------------------------------------------------------- the state
VARIABLES
    input,            \* the items the reader will deliver
    split,            \* the most bytes the reader returns from one read call
    overflow_checks,  \* whether the build panics on arithmetic overflow
    pc,               \* where read_ppm is
    vs,               \* PpmChannelValues: [pos, peeked, is_finished]
    ch,               \* PpmPixelChunks: [cur, state]
    fields,           \* the header integers pulled so far
    calls,            \* how many times from_ppm was invoked
    args,             \* the (width, height, depth) handed to from_ppm
    pulled,           \* what the builder's pulls on the pixel sequence returned
    vals,             \* what every pull on the Value Stream returned
    returned,         \* what from_ppm returned ("none" until it does)
    result            \* what read_ppm returned ("none" while it runs)

vars == <<input, split, overflow_checks, pc, vs, ch, fields, calls, args, pulled, vals,
          returned, result>>

InitWith(splits) ==
    /\ input \in Inputs
    /\ split \in splits
    /\ overflow_checks \in BOOLEAN
    /\ pc = "start"
    /\ vs = [pos |-> 0, peeked |-> FALSE, is_finished |-> FALSE]
    /\ ch = [cur |-> 0, state |-> NoTriple]
    /\ fields = <<>>
    /\ calls = 0
    /\ args = <<>>
    /\ pulled = <<>>
    /\ vals = <<>>
    /\ returned = "none"
    /\ result = "none"

\* the reader fills the buffer whenever the bytes are there (io::Cursor, a file)
Init == InitWith({HeaderLen})

\* any reader: Read::read may return fewer bytes than the buffer holds also
\* when more follow (a pipe, a socket)
InitShort == InitWith(1..HeaderLen)

Fail(kind) ==
    /\ pc' = "done"
    /\ result' = kind

\* lib.rs 47-58: one read call into header, then the magic and the third byte.
\* The read returns the bytes before the first read error, at most split of
\* them; it fails when the first item is a read error.
Available(inp) == IF \E i \in 1..Len(inp) : inp[i] = IOERR
                  THEN (CHOOSE i \in 1..Len(inp) : inp[i] = IOERR /\ \A j \in 1..(i - 1) : inp[j] # IOERR) - 1
                  ELSE Len(inp)
header_read == Min(Min(Available(input), split), HeaderLen)

\* (magic_ok_first is the slip that compares the first byte only)
magic_ok_first(header) == header[1] = CH_P
magic_ok(header) == SubSeq(header, 1, 2) = <<CH_P, CH_3>>

ReadHeader ==
    /\ pc = "start"
    /\ IF Len(input) > 0 /\ input[1] = IOERR
       THEN /\ Fail("Io")
            /\ vs' = [vs EXCEPT !.pos = 1]
       ELSE /\ vs' = [vs EXCEPT !.pos = header_read]
            /\ IF header_read # HeaderLen THEN Fail("Truncated")
               ELSE IF ~magic_ok(SubSeq(input, 1, HeaderLen)) THEN Fail("FormatError")
               ELSE IF ~is_whitespace(input[HeaderLen]) THEN Fail("FormatError")
               ELSE /\ pc' = "fields"
                    /\ result' = result
    /\ UNCHANGED <<input, split, overflow_checks, ch, fields, calls, args, pulled, vals, returned>>

\* lib.rs 60-63: width, height and depth, one pull each.
\* try!(values.next().unwrap_or(Err(Truncated))): how a pull without a value
\* ends the call (field_failure_format is the slip that reports the clean end
\* as a FormatError)
field_failure_format(res) ==
    IF res.tag = "err" THEN res.err
    ELSE IF res.tag = "panic" THEN "Panic"
    ELSE "FormatError"
field_failure(res) ==
    IF res.tag = "err" THEN res.err
    ELSE IF res.tag = "panic" THEN "Panic"
    ELSE "Truncated"

PullField ==
    /\ pc = "fields"
    /\ Len(fields) < 3
    /\ LET r == PpmChannelValues_next(input, vs, overflow_checks) IN
       /\ vs' = r.vs
       /\ vals' = Append(vals, r.res)
       /\ IF r.res.tag = "val"
          THEN /\ fields' = Append(fields, r.res.val)
               /\ UNCHANGED <<pc, result>>
          ELSE /\ fields' = fields
               /\ Fail(field_failure(r.res))
    /\ UNCHANGED <<input, split, overflow_checks, ch, calls, args, pulled, returned>>

\* lib.rs 64-71: the zero check, then from_ppm is called with the pixel sequence
\* the arguments of from_ppm (from_ppm_args_hw is the slip that swaps width
\* and height)
from_ppm_args_hw(w, h, d) == <<h, w, d>>
from_ppm_args(w, h, d) == <<w, h, d>>

\* (zero_field_wh is the slip that forgets depth)
zero_field_wh(w, h, d) == w = U32Zero \/ h = U32Zero
zero_field(w, h, d) == w = U32Zero \/ h = U32Zero \/ d = U32Zero

Delegate ==
    /\ pc = "fields"
    /\ Len(fields) = 3
    /\ IF zero_field(fields[1], fields[2], fields[3])
       THEN /\ Fail("FormatError")
            /\ UNCHANGED <<calls, args>>
       ELSE /\ pc' = "builder"
            /\ calls' = calls + 1
            /\ args' = from_ppm_args(fields[1], fields[2], fields[3])
            /\ result' = result
    /\ UNCHANGED <<input, split, overflow_checks, vs, ch, fields, pulled, vals, returned>>

\* the builder pulls the next item of the pixel sequence (lib.rs 68-69 over
\* helpers.rs 14-30)
BuilderPull ==
    /\ pc = "builder"
    /\ Len(pulled) < MaxPulls
    /\ LET r == PpmPixelChunks_next(input, vs, ch, overflow_checks, <<>>)
           item == IF r.res.tag = "val" THEN PixelOk(PpmPixel(r.res.px)) ELSE r.res
       IN  /\ vs' = r.vs
           /\ ch' = r.ch
           /\ vals' = vals \o r.log
           /\ pulled' = Append(pulled, item)
           /\ IF r.res.tag = "panic" THEN Fail("Panic") ELSE UNCHANGED <<pc, result>>
    /\ UNCHANGED <<input, split, overflow_checks, fields, calls, args, returned>>

\* the builder returns and read_ppm returns what it returned (lib.rs 71)
BuilderReturn ==
    /\ pc = "builder"
    /\ \E r \in BuilderResults :
          /\ returned' = r
          /\ Fail(r)
    /\ UNCHANGED <<input, split, overflow_checks, vs, ch, fields, calls, args, pulled, vals>>

Next == ReadHeader \/ PullField \/ Delegate \/ BuilderPull \/ BuilderReturn

Spec == Init /\ [][Next]_vars

SpecShort == InitShort /\ [][Next]_vars

\* ============================================================ properties
\* What the format says of an input, stated over the bytes alone and
\* independently of the decoder's operators.
RefSpace(b) == b \in {32, 10}
RefDigit(b) == b \in 48..57
RefByte(b) == b \in 0..255

\* the maximal digit runs of s from index i on; cur is the run being read
RECURSIVE RefTokens(_, _, _)
RefTokens(s, i, cur) ==
    IF i > Len(s) THEN (IF cur = <<>> THEN <<>> ELSE <<cur>>)
    ELSE IF RefDigit(s[i]) THEN RefTokens(s, i + 1, Append(cur, s[i]))
    ELSE (IF cur = <<>> THEN <<>> ELSE <<cur>>) \o RefTokens(s, i + 1, <<>>)

\* a digit run without its leading zeros (one digit at least is kept)
RECURSIVE StripZeros(_)
StripZeros(t) == IF Len(t) > 1 /\ t[1] = 48 THEN StripZeros(Tail(t)) ELSE t

\* "4294967295", the digits of 2^32 - 1
MaxU32Digits == <<52, 50, 57, 52, 57, 54, 55, 50, 57, 53>>

\* a <= b for digit runs of the same length
RECURSIVE LexLeq(_, _)
LexLeq(a, b) ==
    IF a = <<>> THEN TRUE
    ELSE IF a[1] < b[1] THEN TRUE
    ELSE IF a[1] > b[1] THEN FALSE
    ELSE LexLeq(Tail(a), Tail(b))

FitsU32(t) ==
    LET d == StripZeros(t) IN
    Len(d) < 10 \/ (Len(d) = 10 /\ LexLeq(d, MaxU32Digits))

\* the decimal digits of a u32 given by its limbs, by long division by ten
RECURSIVE ToDecimal(_)
ToDecimal(v) ==
    IF v[1] = 0 /\ v[2] < 10 THEN <<48 + v[2]>>
    ELSE LET qhi == v[1] \div 10
             t == (v[1] % 10) * 65536 + v[2]
         IN  Append(ToDecimal(<<qhi, t \div 10>>), 48 + (t % 10))

\* the value of a digit run when it is below 100, and 100 otherwise
SmallVal(t) ==
    LET d == StripZeros(t) IN
    IF Len(d) = 1 THEN d[1] - 48
    ELSE IF Len(d) = 2 THEN (d[1] - 48) * 10 + (d[2] - 48)
    ELSE 100

Body == IF Len(input) > 3 THEN SubSeq(input, 4, Len(input)) ELSE <<>>
BodyTokens == RefTokens(Body, 1, <<>>)
BodyClean == \A i \in 1..Len(Body) : RefDigit(Body[i]) \/ RefSpace(Body[i])
MagicGood == Len(input) >= 3 /\ input[1] = 80 /\ input[2] = 51 /\ RefSpace(input[3])

\* the number of pixels the header tokens announce
PixelsOf(toks) == SmallVal(toks[1]) * SmallVal(toks[2])

\* non-zero W, H, D and exactly W*H triples, every integer fitting 32 bits
TokensWellFormed(toks) ==
    /\ Len(toks) >= 3
    /\ Len(toks) = 3 + 3 * PixelsOf(toks)
    /\ \A k \in 1..3 : StripZeros(toks[k]) # <<48>>
    /\ \A k \in 1..Len(toks) : FitsU32(toks[k])

\* 'P3', a whitespace byte, then well-formed tokens separated by spaces and
\* line feeds, and nothing else
WellFormed ==
    /\ MagicGood
    /\ BodyClean
    /\ LET toks == BodyTokens IN TokensWellFormed(toks)

IsValue(v, token) == ToDecimal(v) = StripZeros(token)

\* C1: a well-formed input reaches the builder with width, height and depth
\* as written, and the builder's pulls return the W*H pixels of the input in
\* input order, then the end of the sequence.
C1_RoundTrip ==
    (pc \in {"builder", "done"} /\ WellFormed) =>
        LET toks == BodyTokens IN
        /\ calls = 1
        /\ Len(args) = 3
        /\ \A k \in 1..3 : IsValue(args[k], toks[k])
        /\ \A k \in 1..Len(pulled) :
              IF k <= PixelsOf(toks)
              THEN /\ pulled[k].tag = "val"
                   /\ \A c \in 1..3 : IsValue(pulled[k].px[c], toks[3 * k + c])
              ELSE pulled[k] = NoPixel

C1_Witness ==
    /\ result = "Ok"
    /\ WellFormed
    /\ LET toks == BodyTokens IN
       /\ PixelsOf(toks) >= 2
       /\ Len(pulled) = PixelsOf(toks) + 1
       /\ \E k \in 1..Len(toks) : Len(toks[k]) = 10

\* C2: once a pull on the Value Stream has returned a failure, no later pull
\* on it returns a value.
C2_NoValueAfterFailure ==
    \A i \in 1..Len(vals) : \A j \in 1..Len(vals) :
        (i < j /\ vals[i].tag = "err") => vals[j].tag # "val"

\* C3: once a pull on the pixel sequence has returned a failure, every later
\* pull returns the end of the sequence.
C3_TerminalAfterFailure ==
    \A i \in 1..Len(pulled) : \A j \in 1..Len(pulled) :
        (i < j /\ pulled[i].tag = "err") => pulled[j].tag = "none"

\* C4 as stated: an input with two leading bytes that are not 'P3' fails with
\* FormatError and the builder is not invoked.
LeadingBytes(n) == Len(input) >= n /\ \A i \in 1..n : RefByte(input[i])
BadMagic == <<input[1], input[2]>> # <<80, 51>>

C4_BadMagicTwoBytes ==
    (pc = "done" /\ LeadingBytes(2) /\ BadMagic) =>
        (result = "FormatError" /\ calls = 0)

\* C4 as amended: an input with three leading bytes, the first two not 'P3',
\* fails with FormatError, no value is pulled and the builder is not invoked;
\* with two leading bytes only it fails with Truncated.
C4_BadMagicThreeBytes ==
    (pc = "done" /\ LeadingBytes(2) /\ BadMagic) =>
        /\ calls = 0
        /\ vals = <<>>
        /\ result = IF LeadingBytes(3) THEN "FormatError" ELSE "Truncated"

C4_Witness ==
    /\ pc = "done"
    /\ LeadingBytes(3)
    /\ input[1] = 80
    /\ input[2] # 51
    /\ RefSpace(input[3])
    /\ result = "FormatError"

\* C5: a well-formed input cut before the depth has started (a prefix of
\* 'P3' + whitespace + at most two integers, each fitting 32 bits) fails with
\* Truncated and the builder is not invoked.
CutBeforeDepth ==
    \/ input \in {<<>>, <<80>>, <<80, 51>>}
    \/ /\ MagicGood
       /\ BodyClean
       /\ LET toks == BodyTokens IN
          /\ Len(toks) <= 2
          /\ \A k \in 1..Len(toks) : FitsU32(toks[k])

C5_Truncated ==
    (pc = "done" /\ CutBeforeDepth) => (result = "Truncated" /\ calls = 0)

C5_Witness ==
    /\ pc = "done"
    /\ CutBeforeDepth
    /\ Len(fields) = 2
    /\ RefSpace(input[Len(input)])
    /\ result = "Truncated"

\* C6: read_ppm never ends in a panic: the accumulation on the u32 never
\* aborts the decode.
C6_NoAbort == result # "Panic"

\* C7: over a source that returns values and then ends, without a failure,
\* the chunker returns floor(N/3) triples, the j-th made of the values
\* 3j-2, 3j-1, 3j of the source in order, and then the end; leftover values
\* are dropped and never surface.
IsVal(r) == r.tag = "val"
ChunkerSource == IF Len(vals) > 3 THEN SubSeq(vals, 4, Len(vals)) ELSE <<>>
CleanSource == \A i \in 1..Len(ChunkerSource) : ChunkerSource[i].tag \in {"val", "none"}

C7_Chunking ==
    (calls = 1 /\ CleanSource) =>
        LET V == SelectSeq(ChunkerSource, IsVal)
            T == SelectSeq(pulled, IsVal)
        IN  /\ \A k \in 1..Len(pulled) : pulled[k].tag \in {"val", "none"}
            /\ Len(T) = Len(V) \div 3
            /\ \A j \in 1..Len(T) :
                  T[j].px = <<V[3 * j - 2].val, V[3 * j - 1].val, V[3 * j].val>>
            /\ \A k \in 1..Len(pulled) : \A l \in 1..Len(pulled) :
                  (k < l /\ pulled[k].tag = "none") => pulled[l].tag = "none"

C7_Witness ==
    /\ calls = 1
    /\ CleanSource
    /\ Len(SelectSeq(ChunkerSource, IsVal)) = 5
    /\ Len(pulled) = 3
    /\ pulled[1].tag = "val"
    /\ pulled[2].tag = "none"

\* C8: an input of three bytes or more that starts with 'P3' fails with
\* FormatError, before any header integer is pulled and without the builder,
\* unless its third byte is a space or a line feed; with one of these the
\* decode goes on to the header integers.
C8_ThirdByte ==
    (pc # "start" /\ LeadingBytes(3) /\ ~BadMagic) =>
        IF RefSpace(input[3])
        THEN pc = "fields" \/ Len(vals) >= 1
        ELSE /\ pc = "done"
             /\ result = "FormatError"
             /\ vals = <<>>
             /\ calls = 0

C8_Witness ==
    /\ pc = "done"
    /\ Len(input) = 4
    /\ ~BadMagic
    /\ input[3] = 9
    /\ input[4] = 51
    /\ result = "FormatError"

\* C9: when width, height and depth were all pulled and one of them is zero,
\* read_ppm fails with FormatError, the builder is not invoked and nothing
\* is read past the byte that ended the depth.
\* RefEnd: the index in s of the last digit of the n-th digit run from i on
RECURSIVE RefEnd(_, _, _, _)
RefEnd(s, i, n, inrun) ==
    IF i > Len(s) THEN Len(s)
    ELSE IF RefDigit(s[i]) THEN RefEnd(s, i + 1, n, TRUE)
    ELSE IF inrun THEN (IF n = 1 THEN i - 1 ELSE RefEnd(s, i + 1, n - 1, FALSE))
    ELSE RefEnd(s, i + 1, n, FALSE)

HasZeroField == \E k \in 1..3 : fields[k] = <<0, 0>>

C9_ZeroRejected ==
    (Len(fields) = 3 /\ HasZeroField /\ pc # "fields") =>
        /\ pc = "done"
        /\ result = "FormatError"
        /\ calls = 0
        /\ pulled = <<>>
        /\ Len(vals) = 3
        /\ vs.pos <= RefEnd(input, 4, 3, FALSE) + 1

C9_Witness ==
    /\ pc = "done"
    /\ Len(fields) = 3
    /\ fields[1] # <<0, 0>>
    /\ fields[2] # <<0, 0>>
    /\ fields[3] = <<0, 0>>
    /\ vs.pos + 2 <= Len(input)
    /\ result = "FormatError"

\* C10: the builder is invoked at most once, after the magic was accepted and
\* width, height and depth were pulled in this order by the first three pulls
\* on the Value Stream; before that no pixel is pulled, a pull that returns
\* no value is the last pull, and the call then ends in that failure
\* (Truncated for a clean end) without the builder.  A run the accumulator
\* aborts (C6) ends there too, as the abort and not as a failure.
C10_Ordering ==
    /\ calls <= 1
    /\ calls = 1 =>
        /\ MagicGood
        /\ Len(vals) >= 3
        /\ \A k \in 1..3 : vals[k].tag = "val"
        /\ args = <<vals[1].val, vals[2].val, vals[3].val>>
    /\ calls = 0 =>
        /\ pulled = <<>>
        /\ args = <<>>
        /\ result # "Ok"
        /\ Len(vals) <= 3
        /\ \A k \in 1..(Len(vals) - 1) : vals[k].tag = "val"
        /\ (Len(vals) >= 1 /\ vals[Len(vals)].tag # "val") => pc = "done"
    /\ pulled = <<>> => Len(vals) <= 3
    /\ (pc = "done" /\ calls = 0) =>
          IF vals = <<>> THEN result \in {"FormatError", "Truncated", "Io"}
          ELSE LET last == vals[Len(vals)] IN
               CASE last.tag = "err" -> result = last.err
                 [] last.tag = "none" -> result = "Truncated"
                 [] last.tag = "val" -> result = "FormatError"
                 [] last.tag = "panic" -> result = "Panic"

C10_Witness ==
    /\ calls = 1
    /\ args[1] # args[2]
    /\ Len(pulled) >= 2
    /\ pulled[1].tag = "val"
    /\ result = "Ok"

\* C11: when the builder has pulled k pixels and no other item, nothing is
\* read past the byte that ends the last value pulled (the depth for k = 0),
\* and what the builder was handed is what the bytes up to there say: the
\* tail of the input has no part in it.
Reads == vs.pos + (IF vs.peeked /\ vs.pos < Len(input) THEN 1 ELSE 0)
AllPixels == \A k \in 1..Len(pulled) : pulled[k].tag = "val"

C11_TailUnread ==
    (calls = 1 /\ AllPixels) =>
        LET n == 3 + 3 * Len(pulled)
            e == Min(RefEnd(input, 4, n, FALSE) + 1, Len(input))
            toks == RefTokens(SubSeq(input, 1, e), 4, <<>>)
        IN  /\ Reads <= e
            /\ \A i \in 4..e : RefDigit(input[i]) \/ RefSpace(input[i])
            /\ Len(toks) = n
            /\ \A k \in 1..3 : FitsU32(toks[k]) => IsValue(args[k], toks[k])
            /\ \A k \in 1..Len(pulled) : \A c \in 1..3 :
                  FitsU32(toks[3 * k + c]) => IsValue(pulled[k].px[c], toks[3 * k + c])

C11_Witness ==
    /\ calls = 1
    /\ AllPixels
    /\ Len(pulled) = 1
    /\ result = "Ok"
    /\ Reads + 1 <= Len(input)
    /\ RefSpace(input[Reads])
    /\ input[Reads + 1] \in {120, 256}

\* C12: while width, height and depth are pulled, a read error met makes
\* read_ppm fail with Io, a byte that is neither digit nor whitespace with
\* FormatError, the clean end with Truncated; once from_ppm has returned,
\* read_ppm returns what it returned.  (The header integers fit 32 bits, or
\* the build wraps: otherwise the accumulator aborts before the item is met.)
\* FirstBad: the index of the first item after the magic that is neither a
\* digit nor whitespace, 0 when there is none
FirstBad ==
    LET bad == {i \in 4..Len(input) : ~(RefDigit(input[i]) \/ RefSpace(input[i]))}
    IN  IF bad = {} THEN 0 ELSE CHOOSE i \in bad : \A j \in bad : i <= j
\* the header integers written before the first such item
HeaderRuns ==
    LET upto == IF FirstBad = 0 THEN Len(input) ELSE FirstBad - 1
        runs == RefTokens(SubSeq(input, 1, upto), 4, <<>>)
    IN  SubSeq(runs, 1, Min(3, Len(runs)))
HeaderFits == \A k \in 1..Len(HeaderRuns) : FitsU32(HeaderRuns[k])
\* the index of the item that ends the depth
DepthEnd == RefEnd(input, 4, 3, FALSE) + 1

C12_FailureKinds ==
    /\ (pc = "done" /\ calls = 0 /\ MagicGood /\ (HeaderFits \/ ~overflow_checks)) =>
          IF FirstBad # 0 /\ FirstBad <= DepthEnd
          THEN result = (IF input[FirstBad] = 256 THEN "Io" ELSE "FormatError")
          ELSE IF Len(HeaderRuns) < 3 THEN result = "Truncated"
          ELSE result = "FormatError" /\ HasZeroField
    /\ returned # "none" => (pc = "done" /\ calls = 1 /\ result = returned)
    /\ (pc = "done" /\ calls = 1 /\ returned = "none") =>
          (result = "Panic" /\ pulled[Len(pulled)].tag = "panic")

C12_Witness ==
    /\ pc = "done"
    /\ calls = 0
    /\ MagicGood
    /\ Len(fields) = 2
    /\ FirstBad # 0
    /\ input[FirstBad] = 256
    /\ RefDigit(input[FirstBad - 1])
    /\ result = "Io"

\* C13: over a stream of digits, spaces and line feeds whose digit runs fit
\* 32 bits, the k-th pull on the Value Stream returns the value of the k-th
\* maximal digit run, and the pulls after the last run return the clean end.
C13_Tokenisation ==
    (MagicGood /\ BodyClean) =>
        LET toks == BodyTokens IN
        (\A k \in 1..Len(toks) : FitsU32(toks[k])) =>
            \A k \in 1..Len(vals) :
                IF k <= Len(toks)
                THEN vals[k].tag = "val" /\ IsValue(vals[k].val, toks[k])
                ELSE vals[k] = None

C13_Witness ==
    /\ MagicGood
    /\ BodyClean
    /\ LET toks == BodyTokens IN
       /\ Len(toks) >= 6
       /\ \A k \in 1..Len(toks) : FitsU32(toks[k])
       /\ \E k \in 1..Len(toks) : Len(toks[k]) = 10
       /\ Len(vals) = Len(toks) + 1
    /\ \E i \in 4..(Len(input) - 1) : RefSpace(input[i]) /\ RefSpace(input[i + 1])
    /\ RefSpace(input[Len(input)])

\* C14: read_ppm fails with Truncated at the magic (before any pull) only
\* when the stream does not begin with three bytes, however the reader
\* splits the bytes over its read calls.
C14_TruncatedOnlyWhenShort ==
    (pc = "done" /\ result = "Truncated" /\ vals = <<>>) => ~LeadingBytes(3)

\* C15: a failure the pipeline itself produces (a failure item of the Value
\* Stream or of the pixel sequence, the result of a call from_ppm did not
\* end) is FormatError, Truncated or Io, never OverflowError or Unknown.
PipelineKinds == {"FormatError", "Truncated", "Io"}

C15_ReservedKindsUnused ==
    /\ \A k \in 1..Len(vals) : vals[k].tag = "err" => vals[k].err \in {"FormatError", "Io"}
    /\ \A k \in 1..Len(pulled) : pulled[k].tag = "err" => pulled[k].err \in {"FormatError", "Io"}
    /\ (pc = "done" /\ returned = "none") => result \in PipelineKinds \cup {"Panic"}
    /\ (pc = "done" /\ returned = "none" /\ result = "Panic") =>
          (overflow_checks /\ vals[Len(vals)].tag = "panic")

\* a digit run above 2^32 - 1 was pulled (the build wraps) and the call then
\* failed on its own
C15_Witness ==
    /\ pc = "done"
    /\ returned = "none"
    /\ MagicGood
    /\ Len(vals) >= 2
    /\ vals[1].tag = "val"
    /\ ~FitsU32(RefTokens(input, 4, <<>>)[1])
    /\ result \in PipelineKinds

\* C16 as stated: after a pull that yields a value whose digit run is ended
\* by a whitespace byte, that byte has not been consumed (every byte through
\* the last digit of the run has been taken from the byte stream, no more).
AllVals == vals # <<>> /\ \A k \in 1..Len(vals) : vals[k].tag = "val"
LastRunEnd == RefEnd(input, 4, Len(vals), FALSE)
DelimitedValue == AllVals /\ LastRunEnd < Len(input)

C16_DelimiterUnread ==
    DelimitedValue => vs.pos = LastRunEnd

\* C16, amended: the pull has consumed the whitespace byte that ended the digit
\* run (the loop takes it with bytes.next()), and nothing behind it: the next
\* unread byte is the one after the delimiter, and none is held back as peeked.
C16_DelimiterConsumed ==
    DelimitedValue =>
        /\ RefSpace(input[LastRunEnd + 1])
        /\ vs.pos = LastRunEnd + 1
        /\ ~vs.peeked

\* a fourth value ended by a whitespace byte with a digit right behind it
C16_Witness ==
    /\ DelimitedValue
    /\ Len(vals) >= 4
    /\ LastRunEnd + 2 <= Len(input)
    /\ RefDigit(input[LastRunEnd + 2])
    /\ vs.pos = LastRunEnd + 1

\* the maximal digit runs behind the magic, each with the index of the item
\* that ends it (0: the end of the stream)
RECURSIVE RunsOf(_, _, _)
RunsOf(s, i, cur) ==
    IF i > Len(s)
    THEN (IF cur = <<>> THEN <<>> ELSE <<[tok |-> cur, term |-> 0]>>)
    ELSE IF RefDigit(s[i]) THEN RunsOf(s, i + 1, Append(cur, s[i]))
    ELSE (IF cur = <<>> THEN <<>> ELSE <<[tok |-> cur, term |-> i]>>)
         \o RunsOf(s, i + 1, <<>>)

ProperEnd(r) == r.term = 0 \/ RefSpace(input[r.term])

\* C17: every value a pull returns is the decimal value of a non-empty digit
\* run ended by a whitespace byte or by the end of the stream; once the item
\* that wrongly ends a run has been taken, a pull has failed, no later pull
\* returns anything, and the run's number was never emitted.
C17_ProperTokens ==
    LET E == SelectSeq(vals, IsVal)
        R == RunsOf(input, 4, <<>>)
    IN  /\ Len(E) <= Len(R)
        /\ \A j \in 1..Len(E) : ProperEnd(R[j]) /\ IsValue(E[j].val, R[j].tok)
        /\ \A j \in 1..Len(R) :
              (~ProperEnd(R[j]) /\ vs.pos >= R[j].term) =>
                  /\ Len(E) < j
                  /\ \E k \in 1..Len(vals) :
                        /\ vals[k] = SomeErr(IF input[R[j].term] = IOERR THEN "Io" ELSE "FormatError")
                        /\ \A m \in (k + 1)..Len(vals) : vals[m] = None

\* the positions, in a sequence of pull results, of those that are values
RECURSIVE ValIdx(_, _)
ValIdx(seq, i) ==
    IF i > Len(seq) THEN <<>>
    ELSE (IF seq[i].tag = "val" THEN <<i>> ELSE <<>>) \o ValIdx(seq, i + 1)

\* C18: every triple the chunker emits is made of three values which
\* consecutive source pulls returned, with no failure between them.
C18_NoTripleSpansFailure ==
    calls = 1 =>
        LET idx == ValIdx(ChunkerSource, 1)
            T == SelectSeq(pulled, IsVal)
        IN  \A j \in 1..Len(T) :
                /\ 3 * j <= Len(idx)
                /\ idx[3 * j] = idx[3 * j - 2] + 2
                /\ T[j].px = <<ChunkerSource[idx[3 * j - 2]].val,
                               ChunkerSource[idx[3 * j - 2] + 1].val,
                               ChunkerSource[idx[3 * j - 2] + 2].val>>

====
